---- MODULE Spec2Model ----
(***************************************************************************)
(* Model of app.py, the Philippines maternal health dashboard: the loader  *)
(* load_data (two CSV tables read, cleaned, classified and melted to long  *)
(* form), its cached call site, the sidebar's three filter widgets, the    *)
(* filter logic, the metrics row and the three chart summaries, run as one *)
(* top-to-bottom script per render cycle.                                  *)
(*                                                                         *)
(* Text that the code inspects (place names, cause labels, the search box) *)
(* is a sequence of one-character strings, so that upper-casing, substring *)
(* tests and lexicographic order are computed, not assumed.  Column labels *)
(* and ICD codes, which the code only compares for equality, are strings.  *)
(***************************************************************************)
EXTENDS Integers, Sequences, FiniteSets, TLC

VARIABLES
    fileGeo,          \* table19.csv as the file system holds it
    fileCause,        \* table20.csv as the file system holds it
    cache,            \* st.cache_data's entry for load_data()
    pc,               \* position of the script in the current render cycle
    exc,              \* the exception that ended the cycle, "" if none
    loadCalls,        \* executions of load_data's body in this cycle
    rendered,         \* UI elements emitted in this cycle
    selected_age,     \* value of the age multiselect (session widget state)
    selected_island,  \* value of the island multiselect
    search_cause,     \* value of the search box
    filtered_cause,   \* index labels of df_cause kept by the filter logic
    filtered_geo,     \* index labels of df_geo kept by the filter logic
    total_deaths,
    geo_deaths,
    top_cause_name,
    cause_summary,
    age_summary,
    geo_summary

vars == <<fileGeo, fileCause, cache, pc, exc, loadCalls, rendered,
          selected_age, selected_island, search_cause,
          filtered_cause, filtered_geo, total_deaths, geo_deaths,
          top_cause_name, cause_summary, age_summary, geo_summary>>

(***************************************************************************)
(* Text                                                                    *)
(***************************************************************************)

\* The characters the model's texts are written in, in code point order.
Alphabet ==
    <<" ", "(", ")", "-",
      "A", "B", "C", "D", "E", "F", "G", "H", "I", "J", "K", "L", "M",
      "N", "O", "P", "Q", "R", "S", "T", "U", "V", "W", "X", "Y", "Z",
      "a", "b", "c", "d", "e", "f", "g", "h", "i", "j", "k", "l", "m",
      "n", "o", "p", "q", "r", "s", "t", "u", "v", "w", "x", "y", "z">>

\* ord(c), as the position of c in the alphabet
OrdOf == [c \in {Alphabet[i] : i \in 1..Len(Alphabet)} |->
            CHOOSE i \in 1..Len(Alphabet) : Alphabet[i] = c]

Ord(c) == OrdOf[c]

FirstUpper == Ord("A")

FirstLower == Ord("a")

\* str.upper() on one character
UpperOf == [c \in DOMAIN OrdOf |->
              IF OrdOf[c] >= FirstLower
              THEN Alphabet[OrdOf[c] - FirstLower + FirstUpper] ELSE c]

UpperChar(c) == UpperOf[c]

\* str.lower() on one character (re.IGNORECASE folds both sides)
LowerOf == [c \in DOMAIN OrdOf |->
              IF OrdOf[c] >= FirstUpper /\ OrdOf[c] < FirstLower
              THEN Alphabet[OrdOf[c] - FirstUpper + FirstLower] ELSE c]

LowerChar(c) == LowerOf[c]

Upper(s) == [i \in 1..Len(s) |-> UpperChar(s[i])]

Lower(s) == [i \in 1..Len(s) |-> LowerChar(s[i])]

\* Python's `t in s` on str
Contains(s, t) ==
    \E i \in 1..(Len(s) - Len(t) + 1) : SubSeq(s, i, i + Len(t) - 1) = t

\* Python's s < t on str: lexicographic by code point
RECURSIVE StrLess(_, _)
StrLess(s, t) ==
    IF t = <<>> THEN FALSE
    ELSE IF s = <<>> THEN TRUE
    ELSE IF s[1] # t[1] THEN Ord(s[1]) < Ord(t[1])
    ELSE StrLess(Tail(s), Tail(t))

\* A missing value (NaN) in a text column; no text is equal to it.
NaN == <<"<NaN>">>

\* The literal the metrics row uses when nothing is left: "None"
NoneName == <<"N", "o", "n", "e">>

(***************************************************************************)
(* Columns                                                                 *)
(***************************************************************************)

\* value_vars of both melts, in column order
AgeGroups ==
    <<"Under 15", "15-19", "20-24", "25-29", "30-34", "35-39", "40-44",
      "45-49", "50+">>

AgeSet == {AgeGroups[i] : i \in 1..Len(AgeGroups)}

\* The same labels in the order groupby('Age Group') sorts its keys.
AgeSorted ==
    <<"15-19", "20-24", "25-29", "30-34", "35-39", "40-44", "45-49", "50+",
      "Under 15">>

\* default= of the age multiselect
default_age == {"20-24", "25-29", "30-34", "35-39"}

island_options == {"Luzon", "Visayas", "Mindanao"}

\* usecols=range(11) of table19.csv
GeoCols == 11

\* usecols=range(12) of table20.csv
CauseCols == 12

\* A cell of a count column as read_csv leaves it: a number, a text that is
\* no number, or missing.
Num(n) == <<"num", n>>

Txt == <<"str", 0>>

Nil == <<"nan", 0>>

\* pd.to_numeric(errors='coerce'): numbers stay, anything else is NaN
to_numeric(cell) == IF cell[1] = "num" THEN cell ELSE Nil

\* .fillna(0)
fillna0(cell) == IF cell[1] = "nan" THEN 0 ELSE cell[2]

Deaths(cell) == fillna0(to_numeric(cell))

(***************************************************************************)
(* Classification of places (load_data, geography)                         *)
(***************************************************************************)

T_NCR == <<"N", "C", "R">>

T_CAR == <<"C", "A", "R">>

T_REGION == <<"R", "E", "G", "I", "O", "N">>

T_I == T_REGION \o <<" ", "I">>

T_II == T_REGION \o <<" ", "I", "I">>

T_III == T_REGION \o <<" ", "I", "I", "I">>

T_IV == T_REGION \o <<" ", "I", "V">>

T_MIMAROPA == <<"M", "I", "M", "A", "R", "O", "P", "A">>

T_V == T_REGION \o <<" ", "V">>

T_VI == T_REGION \o <<" ", "V", "I">>

T_VII == T_REGION \o <<" ", "V", "I", "I">>

T_VIII == T_REGION \o <<" ", "V", "I", "I", "I">>

T_IX == T_REGION \o <<" ", "I", "X">>

T_X == T_REGION \o <<" ", "X">>

T_XI == T_REGION \o <<" ", "X", "I">>

T_XII == T_REGION \o <<" ", "X", "I", "I">>

T_CARAGA == <<"C", "A", "R", "A", "G", "A">>

T_BARMM == <<"B", "A", "R", "M", "M">>

LuzonTokens == {T_NCR, T_CAR, T_I, T_II, T_III, T_IV, T_MIMAROPA, T_V}

VisayasTokens == {T_VI, T_VII, T_VIII}

MindanaoTokens == {T_IX, T_X, T_XI, T_XII, T_CARAGA, T_BARMM}

get_island_group(place) ==
    LET p == Upper(place) IN
    IF \E x \in LuzonTokens : Contains(p, x) THEN "Luzon"
    ELSE IF \E x \in VisayasTokens : Contains(p, x) THEN "Visayas"
    ELSE IF \E x \in MindanaoTokens : Contains(p, x) THEN "Mindanao"
    ELSE "Other"

\* the IsRegion lambda: the tests are on the text as written
IsRegion(place) ==
    \/ Contains(place, T_REGION)
    \/ Contains(place, T_NCR)
    \/ Contains(place, T_CAR)
    \/ Contains(place, T_BARMM)

(***************************************************************************)
(* load_data                                                               *)
(***************************************************************************)

\* A data row of table19.csv after the header: the place and the nine age
\* cells (the Total column is read and never used).
GeoRow(place, ages) == [Place |-> place, Ages |-> ages]

\* A data row of table20.csv after the header.
CauseRow(icd, cause, ages) == [ICD |-> icd, Cause |-> cause, Ages |-> ages]

\* A missing ICD code
NoICD == "<NaN>"

\* The header label the loader removes when it shows up as data
HeaderICD == "ICD-10 Code"

\* A file: whether it can be opened, how many columns its lines have, and
\* its data rows.
File(state, ncols, rows) == [state |-> state, ncols |-> ncols, rows |-> rows]

\* pd.read_csv(path, header=h, usecols=range(n)): the exception it raises,
\* "" when it returns.
read_csv_error(file, n) ==
    IF file.state = "absent" THEN "FileNotFoundError"
    ELSE IF file.state = "unreadable" THEN "PermissionError"
    ELSE IF file.ncols < n THEN "ValueError"
    ELSE ""

\* df.dropna(subset=['Place'])
GeoKeyed(r) == r.Place # NaN

\* df.melt(...) of the geography table: one block of rows per age column, in
\* column order, each block in row order; then the Deaths coercion.
melt_geo(df) ==
    LET n == Len(df) IN
    IF n = 0 THEN <<>>
    ELSE [k \in 1..(Len(AgeGroups) * n) |->
            LET a == ((k - 1) \div n) + 1
                r == df[((k - 1) % n) + 1]
            IN [Place    |-> r.Place,
                IsRegion |-> IsRegion(r.Place),
                Island   |-> get_island_group(r.Place),
                Age      |-> AgeGroups[a],
                Deaths   |-> Deaths(r.Ages[a])]]

load_geo(rows) == melt_geo(SelectSeq(rows, GeoKeyed))

\* dropna(subset=['ICD Code']) and the removal of repeated header rows
CauseKept_NoHeaderDrop(r) == r.ICD # NoICD

CauseKept(r) == r.ICD # NoICD /\ r.ICD # HeaderICD

melt_cause(df) ==
    LET n == Len(df) IN
    IF n = 0 THEN <<>>
    ELSE [k \in 1..(Len(AgeGroups) * n) |->
            LET a == ((k - 1) \div n) + 1
                r == df[((k - 1) % n) + 1]
            IN [ICD    |-> r.ICD,
                Cause  |-> r.Cause,
                Age    |-> AgeGroups[a],
                Deaths |-> Deaths(r.Ages[a])]]

load_cause(rows) == melt_cause(SelectSeq(rows, CauseKept))

\* The dtype read_csv gives the Cause column: text as soon as one cell holds
\* text (or there is no row at all), float64 when every cell is missing.
cause_dtype(rows) ==
    IF rows = <<>> \/ \E i \in 1..Len(rows) : rows[i].Cause # NaN
    THEN "object" ELSE "float64"

\* What load_data raises on these two files, "" when it returns.
load_error(fg, fc) ==
    IF read_csv_error(fg, GeoCols) # "" THEN read_csv_error(fg, GeoCols)
    ELSE read_csv_error(fc, CauseCols)

\* What load_data returns: (df_geo_long, df_cause_long)
load_data(fg, fc) ==
    [set        |-> TRUE,
     geo        |-> load_geo(fg.rows),
     cause      |-> load_cause(fc.rows),
     causeDtype |-> cause_dtype(fc.rows)]

\* No cache entry yet
NoData == [set |-> FALSE, geo |-> <<>>, cause |-> <<>>, causeDtype |-> "object"]

\* The script's names for the loaded tables
df_geo == cache.geo

df_cause == cache.cause

(***************************************************************************)
(* FILTER LOGIC                                                            *)
(***************************************************************************)

\* df[df['Age Group'].isin(selected_age)] under `if selected_age:`, as the
\* index labels kept
AgeKept_Inverted(df, ages) ==
    IF ages # {} THEN {i \in 1..Len(df) : df[i].Age \notin ages}
    ELSE 1..Len(df)

AgeKept(df, ages) ==
    IF ages # {} THEN {i \in 1..Len(df) : df[i].Age \in ages}
    ELSE 1..Len(df)

\* filtered_geo[filtered_geo['Island Group'].isin(selected_island)] under
\* `if selected_island:`
IslandKept_NoEmptyGuard(df, idx, islands) == {i \in idx : df[i].Island \in islands}

IslandKept(df, idx, islands) ==
    IF islands # {} THEN {i \in idx : df[i].Island \in islands}
    ELSE idx

\* filtered_geo after lines 153-161
FilterGeo(df, ages, islands) == IslandKept(df, AgeKept(df, ages), islands)

\* The search box's text is a regular expression to str.contains.  The
\* patterns of the model are written with letters, blanks and parentheses:
\* such a pattern compiles iff its parentheses balance, and it then matches
\* where its letters and blanks, in order, occur.
RECURSIVE ParenDepthOk(_, _)
ParenDepthOk(pat, depth) ==
    IF pat = <<>> THEN depth = 0
    ELSE IF pat[1] = "(" THEN ParenDepthOk(Tail(pat), depth + 1)
    ELSE IF pat[1] = ")" THEN depth > 0 /\ ParenDepthOk(Tail(pat), depth - 1)
    ELSE ParenDepthOk(Tail(pat), depth)

IsParen(c) == c \in {"(", ")"}

NotParen(c) == ~IsParen(c)

\* re.compile(pat) returns
re_compiles(pat) == ParenDepthOk(pat, 0)

\* re.compile(pat, re.IGNORECASE).search(text) is not None
re_search(pat, text) ==
    LET t == Lower(text)
        p == Lower(SelectSeq(pat, NotParen))
    IN Contains(t, p)

\* Series.str.contains(pat, case=False, na=False) on one cell
str_contains(cell, pat) == IF cell = NaN THEN FALSE ELSE re_search(pat, cell)

\* What line 164 raises, "" when it returns: the .str accessor refuses a
\* column that is not text, and the pattern must compile.
search_error(dtype, pat) ==
    IF pat = <<>> THEN ""
    ELSE IF dtype # "object" THEN "AttributeError"
    ELSE IF ~re_compiles(pat) THEN "re.error"
    ELSE ""

SearchKept(df, idx, pat) ==
    IF pat # <<>> THEN {i \in idx : str_contains(df[i].Cause, pat)}
    ELSE idx

\* filtered_cause after lines 153-164, when nothing is raised
FilterCause(df, ages, pat) == SearchKept(df, AgeKept(df, ages), pat)

(***************************************************************************)
(* METRICS ROW and chart summaries                                         *)
(***************************************************************************)

\* df.loc[idx, 'Deaths'].sum()
RECURSIVE SumDeaths(_, _)
SumDeaths(df, idx) ==
    IF idx = {} THEN 0
    ELSE LET i == CHOOSE j \in idx : TRUE
         IN df[i].Deaths + SumDeaths(df, idx \ {i})

\* filtered_geo[filtered_geo['IsRegion']]
RegionsOnly(df, idx) == {i \in idx : df[i].IsRegion}

\* groupby('Cause')['Deaths'].sum(): the groups, a missing key forming none
CauseKeys(df, idx) == {df[i].Cause : i \in idx} \ {NaN}

CauseSum(df, idx, key) == SumDeaths(df, {i \in idx : df[i].Cause = key})

PlaceKeys(df, idx) == {df[i].Place : i \in idx}

PlaceSum(df, idx, key) == SumDeaths(df, {i \in idx : df[i].Place = key})

\* g comes before h after groupby (keys ascending) and
\* sort_values('Deaths', ascending=False), which keeps ties in key order
Before(g, h) ==
    g[2] > h[2] \/ (g[2] = h[2] /\ StrLess(g[1], h[1]))

RECURSIVE SortGroups(_)
SortGroups(groups) ==
    IF groups = {} THEN <<>>
    ELSE LET g == CHOOSE x \in groups : \A y \in groups \ {x} : Before(x, y)
         IN <<g>> \o SortGroups(groups \ {g})

\* ...groupby('Cause')['Deaths'].sum().reset_index().sort_values('Deaths',
\* ascending=False): rows <<cause, deaths>>
CauseRanking(df, idx) ==
    SortGroups({<<k, CauseSum(df, idx, k)>> : k \in CauseKeys(df, idx)})

\* .head(10)
TopN == 10

head(seq, n) == SubSeq(seq, 1, IF Len(seq) < n THEN Len(seq) ELSE n)

\* top_cause_name of lines 176-180 when .iloc[0] finds a row
top_cause_NoSentinel(df, idx) ==
    IF CauseRanking(df, idx) # <<>> THEN CauseRanking(df, idx)[1][1] ELSE NaN

top_cause(df, idx) ==
    IF idx # {} THEN CauseRanking(df, idx)[1][1] ELSE NoneName

\* What line 177 raises, "" when it returns: .iloc[0] of an empty ranking
top_cause_error(df, idx) ==
    IF idx # {} /\ CauseKeys(df, idx) = {} THEN "IndexError" ELSE ""

\* groupby('Age Group')['Deaths'].sum().reset_index(): rows <<age, deaths>>
\* in key order
AgeRanking(df, idx) ==
    LET present(a) == \E i \in idx : df[i].Age = a
        keys == SelectSeq(AgeSorted, present)
    IN IF keys = <<>> THEN <<>>
       ELSE [k \in 1..Len(keys) |->
               <<keys[k], SumDeaths(df, {i \in idx : df[i].Age = keys[k]})>>]

\* regions_only.groupby('Place')['Deaths'].sum().reset_index()
\* .sort_values('Deaths', ascending=False)
PlaceRanking(df, idx) ==
    SortGroups({<<k, PlaceSum(df, idx, k)>> : k \in PlaceKeys(df, idx)})

(***************************************************************************)
(* Inputs                                                                  *)
(***************************************************************************)

\* Rows a table of the model has at most (render cycles)
MaxRows == 2

\* Rows a table of the model has at most (loader alone)
MaxLoadRows == 2

S_RegionIVA == <<"R", "e", "g", "i", "o", "n", " ", "I", "V", "-", "A">>

S_Philippines == <<"P", "H", "I", "L", "I", "P", "P", "I", "N", "E", "S">>

S_Hemorrhage == <<"H", "e", "m", "o", "r", "r", "h", "a", "g", "e">>

S_Labor == <<"O", "b", "s", "t", "r", "u", "c", "t", "e", "d", " ", "L", "a", "b", "o", "r">>

S_Eclampsia == <<"E", "c", "l", "a", "m", "p", "s", "i", "a">>

S_CauseHeader == <<"C", "a", "u", "s", "e">>

Cells(ns) == [i \in 1..Len(ns) |-> Num(ns[i])]

A_Scenario == Cells(<<0, 0, 1, 2, 3, 2, 1, 1, 0>>)

A_Zero == Cells(<<0, 0, 0, 0, 0, 0, 0, 0, 0>>)

A_Few == Cells(<<0, 0, 1, 0, 0, 4, 0, 0, 1>>)

A_Gaps == <<Nil, Txt, Num(2), Num(1), Nil, Num(0), Num(0), Txt, Num(1)>>

A_Negative == <<Num(-1), Num(0), Num(2), Num(0), Nil, Num(0), Num(0), Num(0), Num(0)>>

A_Header == <<Txt, Txt, Txt, Txt, Txt, Txt, Txt, Txt, Txt>>

GeoMaster ==
    <<GeoRow(S_RegionIVA, A_Scenario),
      GeoRow(T_VI, A_Few),
      GeoRow(T_BARMM, A_Gaps),
      GeoRow(S_Philippines, A_Scenario)>>

CauseMaster ==
    <<CauseRow("O72", S_Hemorrhage, A_Scenario),
      CauseRow("O66", S_Labor, A_Few),
      CauseRow("O15", S_Eclampsia, A_Zero),
      CauseRow("O99", NaN, A_Gaps),
      CauseRow(HeaderICD, S_CauseHeader, A_Header)>>

RECURSIVE Pick(_, _)
\* The rows of `master` at the indices I, in order
Pick(master, I) ==
    IF I = {} THEN <<>>
    ELSE LET m == CHOOSE i \in I : \A j \in I : i <= j
         IN <<master[m]>> \o Pick(master, I \ {m})

\* The tables of at most n rows taken, in order, from `master`
SubTables(master, n) ==
    {Pick(master, I) : I \in {J \in SUBSET (1..Len(master)) : Cardinality(J) <= n}}

\* The tables of at most n rows, each any row of `pool`
SeqsUpTo(pool, n) == UNION {[1..k -> pool] : k \in 0..n}

\* Files that cannot be loaded: not there, not readable, a column short
BadFiles(n) ==
    {File("absent", 0, <<>>), File("unreadable", n, <<>>), File("ok", n - 1, <<>>)}

GeoFiles == BadFiles(GeoCols) \cup {File("ok", GeoCols, t) : t \in SubTables(GeoMaster, MaxRows)}

CauseFiles ==
    BadFiles(CauseCols) \cup {File("ok", CauseCols, t) : t \in SubTables(CauseMaster, MaxRows)}

\* The loader alone is run on more kinds of rows: a row without its key, a
\* negative cell, and one row per token of the classifier.
ClassifierTokens == LuzonTokens \cup VisayasTokens \cup MindanaoTokens

GeoLoadPool ==
    {GeoMaster[i] : i \in 1..Len(GeoMaster)}
        \cup {GeoRow(NaN, A_Few), GeoRow(T_NCR, A_Negative)}

CauseLoadPool ==
    {CauseMaster[i] : i \in 1..Len(CauseMaster)}
        \cup {CauseRow(NoICD, S_Labor, A_Few)}

GeoLoadFiles ==
    BadFiles(GeoCols)
        \cup {File("ok", GeoCols, t) : t \in SeqsUpTo(GeoLoadPool, MaxLoadRows)}
        \cup {File("ok", GeoCols, <<GeoRow(p, A_Few)>>) : p \in ClassifierTokens}

CauseLoadFiles ==
    BadFiles(CauseCols)
        \cup {File("ok", CauseCols, t) : t \in SeqsUpTo(CauseLoadPool, MaxLoadRows)}

\* What the user can put in the three widgets
AgeSelections ==
    {{}, AgeSet, default_age, {"20-24"}, {"Under 15"}, {"20-24", "50+"}}

IslandSelections == SUBSET island_options

P_Hemorrhage == <<"h", "e", "m", "o", "r", "r", "h", "a", "g", "e">>

P_Labor == <<"(", "L", "A", "B", "O", "R", ")">>

P_Open == <<"(">>

SearchTexts == {<<>>, P_Hemorrhage, P_Labor, P_Open}

(***************************************************************************)
(* The script, one render cycle after another                              *)
(***************************************************************************)

\* Script variables before their assignment
Unset ==
    /\ filtered_cause = {}
    /\ filtered_geo = {}
    /\ total_deaths = 0
    /\ geo_deaths = 0
    /\ top_cause_name = NaN
    /\ cause_summary = <<>>
    /\ age_summary = <<>>
    /\ geo_summary = <<>>

\* A cycle starts: lines 6-80 have set the page up and emitted the CSS
CycleStart ==
    /\ pc = "load"
    /\ exc = ""
    /\ loadCalls = 0
    /\ rendered = {"css"}

DefaultWidgets ==
    /\ selected_age = default_age
    /\ selected_island = island_options
    /\ search_cause = <<>>

Init ==
    /\ fileGeo \in GeoFiles
    /\ fileCause \in CauseFiles
    /\ cache = NoData
    /\ CycleStart
    /\ DefaultWidgets
    /\ Unset

InitLoad ==
    /\ fileGeo \in GeoLoadFiles
    /\ fileCause \in CauseLoadFiles
    /\ cache = NoData
    /\ CycleStart
    /\ DefaultWidgets
    /\ Unset

widgets == <<selected_age, selected_island, search_cause>>

outputs ==
    <<filtered_cause, filtered_geo, total_deaths, geo_deaths, top_cause_name,
      cause_summary, age_summary, geo_summary>>

files == <<fileGeo, fileCause>>

\* Where the script goes after the except branch: st.stop() ends the cycle
after_load_error_FallThrough == "sidebar"

after_load_error == "stopped"

\* load_data() answered from st.cache_data: the body does not run
LoadHit ==
    /\ pc = "load"
    /\ cache.set
    /\ pc' = "sidebar"
    /\ UNCHANGED <<files, cache, exc, loadCalls, rendered, widgets, outputs>>

\* load_data() runs and returns; its result is cached
LoadOk ==
    /\ pc = "load"
    /\ ~cache.set
    /\ load_error(fileGeo, fileCause) = ""
    /\ loadCalls' = loadCalls + 1
    /\ cache' = load_data(fileGeo, fileCause)
    /\ pc' = "sidebar"
    /\ UNCHANGED <<files, exc, rendered, widgets, outputs>>

\* load_data() raises: st.error(...) then st.stop()
LoadFail ==
    /\ pc = "load"
    /\ ~cache.set
    /\ load_error(fileGeo, fileCause) # ""
    /\ loadCalls' = loadCalls + 1
    /\ rendered' = rendered \cup {"error"}
    /\ pc' = after_load_error
    /\ UNCHANGED <<files, cache, exc, widgets, outputs>>

\* options= of the age multiselect
age_options == {df_cause[i].Age : i \in 1..Len(df_cause)}

\* The sidebar: st.multiselect refuses a default that is not among its
\* options, which are the age groups present in df_cause
Sidebar ==
    /\ pc = "sidebar"
    /\ IF default_age \subseteq age_options
       THEN /\ rendered' = rendered \cup {"filter_age", "filter_island", "filter_search"}
            /\ pc' = "filter"
            /\ exc' = exc
       ELSE /\ rendered' = rendered \cup {"exception"}
            /\ pc' = "crashed"
            /\ exc' = "StreamlitAPIException"
    /\ UNCHANGED <<files, cache, loadCalls, widgets, outputs>>

\* FILTER LOGIC, lines 153-164
Filter ==
    /\ pc = "filter"
    /\ filtered_geo' = FilterGeo(df_geo, selected_age, selected_island)
    /\ LET err == search_error(cache.causeDtype, search_cause) IN
       IF err = ""
       THEN /\ filtered_cause' = FilterCause(df_cause, selected_age, search_cause)
            /\ pc' = "metrics"
            /\ UNCHANGED <<exc, rendered>>
       ELSE /\ filtered_cause' = AgeKept(df_cause, selected_age)
            /\ pc' = "crashed"
            /\ exc' = err
            /\ rendered' = rendered \cup {"exception"}
    /\ UNCHANGED <<files, cache, loadCalls, widgets, total_deaths, geo_deaths,
                   top_cause_name, cause_summary, age_summary, geo_summary>>

\* The title and the METRICS ROW, lines 168-185
Metrics ==
    /\ pc = "metrics"
    /\ total_deaths' = SumDeaths(df_cause, filtered_cause)
    /\ geo_deaths' = SumDeaths(df_geo, RegionsOnly(df_geo, filtered_geo))
    /\ LET err == top_cause_error(df_cause, filtered_cause) IN
       IF err = ""
       THEN /\ top_cause_name' = top_cause(df_cause, filtered_cause)
            /\ rendered' = rendered \cup
                  {"title", "metric_total", "metric_islands", "metric_leading"}
            /\ pc' = "charts"
            /\ exc' = exc
       ELSE /\ top_cause_name' = top_cause_name
            /\ rendered' = rendered \cup {"title", "exception"}
            /\ pc' = "crashed"
            /\ exc' = err
    /\ UNCHANGED <<files, cache, loadCalls, widgets, filtered_cause, filtered_geo,
                   cause_summary, age_summary, geo_summary>>

\* The three charts and the footer, lines 190-270
Charts ==
    /\ pc = "charts"
    /\ cause_summary' =
          IF filtered_cause # {}
          THEN head(CauseRanking(df_cause, filtered_cause), TopN) ELSE <<>>
    /\ age_summary' =
          IF filtered_cause # {} THEN AgeRanking(df_cause, filtered_cause) ELSE <<>>
    /\ geo_summary' = PlaceRanking(df_geo, RegionsOnly(df_geo, filtered_geo))
    /\ rendered' = rendered
          \cup (IF filtered_cause # {} THEN {"chart_top10", "chart_age"} ELSE {"info_no_data"})
          \cup (IF RegionsOnly(df_geo, filtered_geo) # {}
                THEN {"chart_regions"} ELSE {"warning_no_regions"})
          \cup {"footer"}
    /\ pc' = "done"
    /\ UNCHANGED <<files, cache, exc, loadCalls, widgets, filtered_cause,
                   filtered_geo, total_deaths, geo_deaths, top_cause_name>>

\* The script starts over: its variables are gone, lines 6-80 run again
NewCycle ==
    /\ pc' = "load"
    /\ exc' = ""
    /\ loadCalls' = 0
    /\ rendered' = {"css"}
    /\ filtered_cause' = {}
    /\ filtered_geo' = {}
    /\ total_deaths' = 0
    /\ geo_deaths' = 0
    /\ top_cause_name' = NaN
    /\ cause_summary' = <<>>
    /\ age_summary' = <<>>
    /\ geo_summary' = <<>>

\* The user changes one widget of the sidebar: the script runs again from
\* the top with the new widget values; the cache outlives the cycle
Interact ==
    /\ pc \in {"done", "crashed"}
    /\ "filter_age" \in rendered
    /\ \/ selected_age' \in AgeSelections \ {selected_age}
             /\ UNCHANGED <<selected_island, search_cause>>
       \/ selected_island' \in IslandSelections \ {selected_island}
             /\ UNCHANGED <<selected_age, search_cause>>
       \/ search_cause' \in SearchTexts \ {search_cause}
             /\ UNCHANGED <<selected_age, selected_island>>
    /\ NewCycle
    /\ UNCHANGED <<files, cache>>

\* The page is loaded anew: a new session, its widgets at their defaults
Reload ==
    /\ pc \in {"done", "stopped", "crashed"}
    /\ selected_age' = default_age
    /\ selected_island' = island_options
    /\ search_cause' = <<>>
    /\ NewCycle
    /\ UNCHANGED <<files, cache>>

Next ==
    \/ LoadHit
    \/ LoadOk
    \/ LoadFail
    \/ Sidebar
    \/ Filter
    \/ Metrics
    \/ Charts
    \/ Interact
    \/ Reload

Spec == Init /\ [][Next]_vars

\* The loader alone, on its wider inputs
NextLoad ==
    \/ LoadOk
    \/ LoadFail

SpecLoad == InitLoad /\ [][NextLoad]_vars

(***************************************************************************)
(* Properties                                                              *)
(***************************************************************************)

\* The filter logic has run to its end in this cycle
FilterRan == pc \in {"metrics", "charts", "done"}

\* Lines 173-174 have run in this cycle
TotalsComputed == pc \in {"charts", "done"} \/ (pc = "crashed" /\ exc = "IndexError")

\* The metrics row has run to its end in this cycle
MetricsRan == pc \in {"charts", "done"}

\* A source file is absent, unreadable or has too few columns
Unloadable ==
    \/ fileGeo.state # "ok"
    \/ fileGeo.ncols < 11
    \/ fileCause.state # "ok"
    \/ fileCause.ncols < 12

\* C1: if loading the two source tables fails (a file absent, unreadable or
\* with too few columns) the cycle shows an error and halts: the script goes
\* from the load to the stop and nowhere else, nothing but the page set-up and
\* the error is emitted (no filter control, no metric, no chart), no script
\* variable is assigned, and load_data ran once, without a retry.  A cycle
\* halts this way only on such files.
C1_LoadFailureHalts ==
    /\ Unloadable =>
          /\ pc \in {"load", "stopped"}
          /\ rendered \subseteq {"css", "error"}
          /\ Unset
          /\ pc = "load" => loadCalls = 0 /\ rendered = {"css"}
          /\ pc = "stopped" => loadCalls = 1 /\ "error" \in rendered
    /\ pc = "stopped" => Unloadable

\* C1 witness: a cycle halted on a cause table one column short, the
\* geography table being loadable
C1_Witness ==
    /\ pc = "stopped"
    /\ "error" \in rendered
    /\ read_csv_error(fileGeo, GeoCols) = ""
    /\ fileCause.state = "ok"
    /\ fileCause.ncols = 11

\* The geography records of the three selectable island groups, and what the
\* metrics row and the regional chart make of them
GeoAllSelectable == FilterGeo(df_geo, selected_age, island_options)

\* The geography records when all four island groups pass
GeoAllFour == FilterGeo(df_geo, selected_age, island_options \cup {"Other"})

\* C2 as stated: an empty ageGroups filters as all nine brackets do, and an
\* empty islandGroups gives the same geography records, islandSelectionDeaths
\* and regionTotals as selecting Luzon, Visayas and Mindanao; both empty (and
\* no search text) return the full tables.
C2_EmptyIsAllSelectable ==
    /\ FilterRan /\ selected_age = {} =>
          /\ filtered_cause = FilterCause(df_cause, AgeSet, search_cause)
          /\ filtered_geo = FilterGeo(df_geo, AgeSet, selected_island)
    /\ FilterRan /\ selected_island = {} => filtered_geo = GeoAllSelectable
    /\ MetricsRan /\ selected_island = {} =>
          geo_deaths = SumDeaths(df_geo, RegionsOnly(df_geo, GeoAllSelectable))
    /\ pc = "done" /\ selected_island = {} =>
          geo_summary = PlaceRanking(df_geo, RegionsOnly(df_geo, GeoAllSelectable))
    /\ FilterRan /\ selected_age = {} /\ selected_island = {} /\ search_cause = <<>> =>
          /\ filtered_cause = 1..Len(df_cause)
          /\ filtered_geo = 1..Len(df_geo)

\* C2 as amended: an empty ageGroups filters as all nine brackets do; an empty
\* islandGroups applies no island filter, which is the selection of all four
\* groups, Other included: the records of the three selectable groups plus
\* the records classified Other, with islandSelectionDeaths and regionTotals
\* computed on those; it gives what selecting Luzon, Visayas and Mindanao
\* gives exactly when no record that passes the age filter is classified
\* Other.  Both empty (and no search text) return the full tables.
C2_EmptyIsNoFilter ==
    /\ FilterRan /\ selected_age = {} =>
          /\ filtered_cause = FilterCause(df_cause, AgeSet, search_cause)
          /\ filtered_geo = FilterGeo(df_geo, AgeSet, selected_island)
    /\ FilterRan /\ selected_island = {} =>
          /\ filtered_geo = GeoAllFour
          /\ filtered_geo = GeoAllSelectable \cup
                {i \in AgeKept(df_geo, selected_age) : df_geo[i].Island = "Other"}
          /\ filtered_geo = GeoAllSelectable <=>
                \A i \in AgeKept(df_geo, selected_age) : df_geo[i].Island # "Other"
    /\ MetricsRan /\ selected_island = {} =>
          geo_deaths = SumDeaths(df_geo, RegionsOnly(df_geo, GeoAllFour))
    /\ pc = "done" /\ selected_island = {} =>
          geo_summary = PlaceRanking(df_geo, RegionsOnly(df_geo, GeoAllFour))
    /\ FilterRan /\ selected_age = {} /\ selected_island = {} /\ search_cause = <<>> =>
          /\ filtered_cause = 1..Len(df_cause)
          /\ filtered_geo = 1..Len(df_geo)

\* C2 witness: a finished cycle with both selections empty, cause records
\* left, and a geography record classified Other that the three selectable
\* groups would have dropped
C2_Witness ==
    /\ pc = "done"
    /\ selected_age = {}
    /\ selected_island = {}
    /\ filtered_cause # {}
    /\ filtered_geo # GeoAllSelectable
    /\ GeoAllSelectable # {}

\* C3 as stated: whenever the selection made is componentwise included in
\* another one (same search text), the cause records and the geography
\* records it keeps are among those the other one keeps.
C3_Monotone ==
    FilterRan =>
        \A A2 \in AgeSelections :
            selected_age \subseteq A2 =>
                /\ filtered_cause \subseteq FilterCause(df_cause, A2, search_cause)
                /\ \A I2 \in IslandSelections :
                      selected_island \subseteq I2
                          => filtered_geo \subseteq FilterGeo(df_geo, A2, I2)

\* C3 as amended: the inclusion of the results holds when no component of the
\* smaller selection is empty unless the same component of the larger one is
\* empty too (an empty component filters nothing, so it is the largest
\* selection, not the smallest); for the cause records only ageGroups counts.
C3_MonotoneNonEmpty ==
    FilterRan =>
        \A A2 \in AgeSelections :
            selected_age \subseteq A2 /\ (selected_age = {} => A2 = {}) =>
                /\ filtered_cause \subseteq FilterCause(df_cause, A2, search_cause)
                /\ \A I2 \in IslandSelections :
                      selected_island \subseteq I2 /\ (selected_island = {} => I2 = {})
                          => filtered_geo \subseteq FilterGeo(df_geo, A2, I2)

\* C3 witness: one age group and one island group selected, records of both
\* tables kept, and the default selection, which includes it, keeping more
C3_Witness ==
    /\ FilterRan
    /\ selected_age = {"20-24"}
    /\ selected_island = {"Luzon"}
    /\ filtered_cause # {}
    /\ filtered_geo # {}
    /\ filtered_geo # FilterGeo(df_geo, default_age, island_options)
    /\ filtered_cause # FilterCause(df_cause, default_age, search_cause)

\* Source rows whose key is there
GeoKeyRows == {i \in 1..Len(fileGeo.rows) : fileGeo.rows[i].Place # NaN}

CauseKeyRows == {i \in 1..Len(fileCause.rows) : fileCause.rows[i].ICD # NoICD}

\* Records of a long table in one age bracket
InBracket(df, a) == {k \in 1..Len(df) : df[k].Age = a}

\* C4 as stated: each long table holds exactly 9 records per source row whose
\* key column (Place, ICD Code) is not empty.
C4_NinePerKeyedRow ==
    cache.set =>
        /\ Len(df_geo) = 9 * Cardinality(GeoKeyRows)
        /\ Len(df_cause) = 9 * Cardinality(CauseKeyRows)

\* C4 as amended: the geography table holds exactly 9 records per source row
\* whose Place is not empty; the cause table holds exactly 9 records per
\* source row whose ICD Code is not empty and is not the repeated header
\* label "ICD-10 Code"; in both, one record per age bracket per such row.
C4_NinePerSurvivingRow ==
    cache.set =>
        LET kept == {i \in CauseKeyRows : fileCause.rows[i].ICD # "ICD-10 Code"} IN
        /\ Len(df_geo) = 9 * Cardinality(GeoKeyRows)
        /\ Len(df_cause) = 9 * Cardinality(kept)
        /\ \A a \in AgeSet :
              /\ Cardinality(InBracket(df_geo, a)) = Cardinality(GeoKeyRows)
              /\ Cardinality(InBracket(df_cause, a)) = Cardinality(kept)
        /\ \A k \in 1..Len(df_geo) : df_geo[k].Age \in AgeSet
        /\ \A k \in 1..Len(df_cause) : df_cause[k].Age \in AgeSet

\* C4 witness: tables loaded from a cause file with a repeated header row
\* beside a data row and a geography file with a row without Place beside a
\* data row
C4_Witness ==
    /\ cache.set
    /\ \E i \in 1..Len(fileCause.rows) : fileCause.rows[i].ICD = HeaderICD
    /\ Len(df_cause) = 9
    /\ \E i \in 1..Len(fileGeo.rows) : fileGeo.rows[i].Place = NaN
    /\ Len(df_geo) = 9

\* C5: in every record of both long tables deaths is a number >= 0: an absent
\* or non-numeric cell gives 0 and no cell gives a negative value.
C5_DeathsNonNegative ==
    cache.set =>
        /\ \A k \in 1..Len(df_geo) : df_geo[k].Deaths \in Nat
        /\ \A k \in 1..Len(df_cause) : df_cause[k].Deaths \in Nat

\* C6: a geography table with the row ["Region IV-A", 10, 0,0,1,2,3,2,1,1,0]
\* (and no other row of that place) has for it exactly 9 records, one per
\* age bracket, each Luzon and a region, with deaths summing to 10.
C6_RegionIVA ==
    LET rows == {i \in 1..Len(fileGeo.rows) : fileGeo.rows[i].Place = S_RegionIVA}
        recs == {k \in 1..Len(df_geo) : df_geo[k].Place = S_RegionIVA}
    IN cache.set /\ Cardinality(rows) = 1
          /\ (\A i \in rows : fileGeo.rows[i].Ages = A_Scenario) =>
        /\ Cardinality(recs) = 9
        /\ \A a \in AgeSet : \E k \in recs : df_geo[k].Age = a
        /\ \A k \in recs : df_geo[k].Island = "Luzon"
        /\ \A k \in recs : df_geo[k].IsRegion = TRUE
        /\ SumDeaths(df_geo, recs) = 10

\* Lines 173-174 and 176-180 on an empty or all-zero filtered cause set
AllZero == \A i \in filtered_cause : df_cause[i].Deaths = 0

C8_FilterAndAggregatesTotal ==
    /\ ~(pc = "crashed" /\ exc \in {"AttributeError", "re.error", "IndexError"})
    /\ pc = "done" /\ filtered_cause = {} =>
          /\ total_deaths = 0
          /\ top_cause_name = NoneName
          /\ cause_summary = <<>>
          /\ age_summary = <<>>
    /\ pc = "done" /\ filtered_geo = {} => geo_deaths = 0 /\ geo_summary = <<>>

\* cause_summary is in non-increasing order of deaths
NonIncreasing(seq) == \A j \in 1..(Len(seq) - 1) : seq[j][2] >= seq[j + 1][2]

\* C9: for a filtered cause set with at least one record, leadingCause is a
\* cause label of the set whose summed deaths no other label exceeds, it is
\* the first entry of topCauses, which has at most 10 entries in
\* non-increasing order, and computing it again gives the same; with no
\* record left it is "None".
C9_LeadingCause ==
    /\ TotalsComputed /\ filtered_cause # {} =>
          /\ top_cause_name \in CauseKeys(df_cause, filtered_cause)
          /\ \A k \in CauseKeys(df_cause, filtered_cause) :
                CauseSum(df_cause, filtered_cause, top_cause_name)
                    >= CauseSum(df_cause, filtered_cause, k)
          /\ top_cause_name = top_cause(df_cause, filtered_cause)
    /\ pc = "done" /\ filtered_cause # {} =>
          /\ cause_summary # <<>>
          /\ cause_summary[1][1] = top_cause_name
          /\ Len(cause_summary) <= 10
          /\ NonIncreasing(cause_summary)
    /\ MetricsRan /\ filtered_cause = {} => top_cause_name = NoneName

\* C10: a place whose upper-cased text is exactly a token of the classifier
\* is classified as the island group of the list the token is written in.
C10_TokensClassified ==
    cache.set =>
        \A k \in 1..Len(df_geo) :
            LET p == Upper(df_geo[k].Place) IN
            /\ p \in LuzonTokens => df_geo[k].Island = "Luzon"
            /\ p \in VisayasTokens => df_geo[k].Island = "Visayas"
            /\ p \in MindanaoTokens => df_geo[k].Island = "Mindanao"

====
